---- MODULE Spec2Model ----
(***************************************************************************)
(* Model of the contest-management REST server of src/index.js.            *)
(*                                                                         *)
(* The document store is four collections.  Every route handler is an     *)
(* async function: it runs from one `await` of a store operation to the   *)
(* next without interruption, and between two awaits the handlers of      *)
(* other requests may run.  A request is therefore a small process whose   *)
(* program counter names the store operation it is about to issue; one    *)
(* action of the model is one store operation together with the           *)
(* synchronous code that follows it up to the next await (or up to the    *)
(* response).  Each store operation on one document is atomic.            *)
(*                                                                         *)
(* verifyToken is treated as the opaque authentication gate: a request    *)
(* carries the verified identity `caller` (req.decoded.email).            *)
(***************************************************************************)
EXTENDS Integers, Sequences, FiniteSets, Bags, TLC

(***************************************************************************)
(* Bounds of the model.                                                    *)
(***************************************************************************)
\* number of requests of one run; each request is served once
MaxRequests == 2
\* the clock runs from 0 to MaxTime
MaxTime == 1

Requests == 1..MaxRequests
\* MongoClient objects: the one request r creates is r, and 0 is the one an
\* earlier request created
Clients == 0..MaxRequests
Times == 0..MaxTime

(***************************************************************************)
(* Value domains.                                                          *)
(***************************************************************************)
\* identities; "u3" never registers in the winner-declaration runs
Emails == {"cr1", "cr2", "u1", "u2", "u3"}
Roles == {"Normal User", "Contest Creator", "Admin"}
Statuses == {"Pending", "Confirmed", "Rejected", "Closed"}

\* a field `winner` that is unset / set: a sequence of length 0 / 1
NoWinner == <<>>

\* response status of a request: "pending" while none has been sent,
\* "unhandled" when the async handler rejected (express 4 sends nothing)
RespStatuses == {"pending", "200", "201", "400", "403", "404", "500", "unhandled"}

(***************************************************************************)
(* State.                                                                  *)
(***************************************************************************)
VARIABLES
    now,                    \* new Date()
    usersCollection,        \* email -> the documents with that email, in insertion order
    contestsCollection,     \* _id -> contest document, for the ids that exist
    nextContestId,          \* the next _id insertOne generates
    participatedCollection, \* bag of participation documents
    submissionsCollection,  \* bag of submission documents
    pc,                     \* request -> the await it is suspended at
    req,                    \* request -> route, verified identity, params and body
    loc,                    \* request -> the handler's local constants (contest, winnerUser)
    resp,                   \* request -> [status, n]: HTTP status and documents affected
    err,                    \* request -> the error the handler rejected with, "" if none
    writes,                 \* request -> the collections the request has written (history)
    raced,                  \* email -> two POST /users for it were in flight together (history)
    client,                 \* the module's MongoClient: <<>> while undefined, <<c>> for client c
    db,                     \* the client db and the four collection handles were taken from
    isConnected,            \* the module's flag
    connects                \* client -> how far its connect() has come (history)

store == <<usersCollection, contestsCollection, nextContestId,
           participatedCollection, submissionsCollection>>
procs == <<pc, req, loc, resp, err, writes>>
connection == <<client, db, isConnected, connects>>
vars == <<now, store, procs, raced, connection>>

(***************************************************************************)
(* Exact arithmetic for winPercentage: the quotient n/d as the reduced    *)
(* fraction <<numerator, denominator>>.  (The store computes in doubles;  *)
(* the model keeps the exact rational.)                                    *)
(***************************************************************************)
RECURSIVE GCD(_, _)
GCD(a, b) == IF b = 0 THEN a ELSE GCD(b, a % b)

Frac(n, d) == IF n = 0 THEN <<0, 1>> ELSE <<n \div GCD(n, d), d \div GCD(n, d)>>

Zero == <<0, 1>>

(***************************************************************************)
(* Store operations.                                                       *)
(***************************************************************************)
\* usersCollection.findOne({ email }): the first document with that email
UserExists(email) == usersCollection[email] # <<>>
FindUser(email) == Head(usersCollection[email])

FindUserOrNull(email) == IF UserExists(email) THEN <<FindUser(email)>> ELSE <<>>

\* contestsCollection.findOne({ _id })
ContestExists(id) == id \in DOMAIN contestsCollection
FindContest(id) == IF ContestExists(id) THEN <<contestsCollection[id]>> ELSE <<>>

\* usersCollection.updateOne({ email }, ...): rewrites the first match
UpdateFirstUser(email, doc) ==
    [usersCollection EXCEPT ![email] = <<doc>> \o Tail(@)]

\* { $set: body }: every field of the body replaces the document's field
ApplySet(doc, body) ==
    [f \in DOMAIN doc |-> IF f \in DOMAIN body THEN body[f] ELSE doc[f]]

(***************************************************************************)
(* Documents.                                                              *)
(***************************************************************************)
\* the document POST /users inserts (photo, bio and address carry no logic
\* and are left out; name stands for the profile fields)
NewUser(email, name, role) ==
    [email |-> email, name |-> name, role |-> role,
     wins |-> 0, participatedCount |-> 0, winPercentage |-> Zero]

Participation(id, email) == [contestId |-> id, participantEmail |-> email]

\* a registered user who has entered the contests of `entered`
UserWith(email, role, entered) ==
    [NewUser(email, email, role) EXCEPT !.participatedCount = Cardinality(entered)]

(***************************************************************************)
(* Requests.                                                               *)
(***************************************************************************)
NoReq == [op |-> "none"]
\* contest and winnerUser hold what findOne returned: <<>> for null, <<doc>> for a document
NoLoc == [contest |-> <<>>, winnerUser |-> <<>>, matched |-> 0]
NoResp == [status |-> "pending", n |-> 0]

InFlight(r) == pc[r] \notin {"new", "done"}

\* requests arrive in the order of their numbers (they are interchangeable)
CanStart(r) == pc[r] = "new" /\ \A q \in Requests : q < r => pc[q] # "new"

\* res.status(s).send(...) / res.send(...): the handler ends
Respond(r, status, n) ==
    /\ pc' = [pc EXCEPT ![r] = "done"]
    /\ resp' = [resp EXCEPT ![r] = [status |-> status, n |-> n]]

\* the awaited store operation rejects: an async express handler without
\* try/catch sends no response
Reject(r, error) ==
    /\ pc' = [pc EXCEPT ![r] = "done"]
    /\ resp' = [resp EXCEPT ![r] = [status |-> "unhandled", n |-> 0]]
    /\ err' = [err EXCEPT ![r] = error]

Goto(r, label) == pc' = [pc EXCEPT ![r] = label]

(***************************************************************************)
(* Role verification middleware.                                           *)
(***************************************************************************)
\* the route's handler, entered by next()
HandlerEntry(op) ==
    CASE op = "declareWinner" -> "findContest"
      [] op = "createContest" -> "insertContest"
      [] op = "setStatus" -> "updateStatus"
      [] OTHER -> "done"

\* verifyCreator: 403 unless the caller's stored role is 'Contest Creator'
VerifyCreator(r) ==
    /\ pc[r] = "verifyCreator"
    /\ IF UserExists(req[r].caller) /\ FindUser(req[r].caller).role = "Contest Creator"
       THEN Goto(r, HandlerEntry(req[r].op)) /\ UNCHANGED resp
       ELSE Respond(r, "403", 0)
    /\ UNCHANGED <<now, store, req, loc, err, writes, raced, connection>>

\* verifyAdmin: 403 unless the caller's stored role is 'Admin'
VerifyAdmin(r) ==
    /\ pc[r] = "verifyAdmin"
    /\ IF UserExists(req[r].caller) /\ FindUser(req[r].caller).role = "Admin"
       THEN Goto(r, HandlerEntry(req[r].op)) /\ UNCHANGED resp
       ELSE Respond(r, "403", 0)
    /\ UNCHANGED <<now, store, req, loc, err, writes, raced, connection>>

(***************************************************************************)
(* PUT /contests/declare-winner/:id                                        *)
(***************************************************************************)
\* the request arrives: verifyToken has set req.decoded.email = caller
StartDeclareWinner(r, caller, id, winnerEmail) ==
    /\ CanStart(r)
    /\ req' = [req EXCEPT ![r] = [op |-> "declareWinner", caller |-> caller,
                                  id |-> id, winnerEmail |-> winnerEmail]]
    /\ Goto(r, "verifyCreator")
    /\ UNCHANGED <<now, store, loc, resp, err, writes, raced, connection>>

\* the eligibility gate on the contest that findOne returned
DeadlinePassed(contest) == ~(now < contest.deadline)
WinnerUnset(contest) == contest.winner = NoWinner
\* faulty variant: the gate without the winner check
EligibleDeadlineOnly(contest) == DeadlinePassed(contest)
Eligible(contest) == DeadlinePassed(contest) /\ WinnerUnset(contest)

\* steps 1 and 2: findOne the contest, ownership check, eligibility gate
DeclareFindContest(r) ==
    /\ pc[r] = "findContest"
    /\ loc' = [loc EXCEPT ![r].contest = FindContest(req[r].id)]
    /\ IF ~ContestExists(req[r].id)
          \/ contestsCollection[req[r].id].creatorEmail # req[r].caller
       THEN Respond(r, "403", 0)
       ELSE IF ~Eligible(contestsCollection[req[r].id])
       THEN Respond(r, "400", 0)
       ELSE Goto(r, "findWinner") /\ UNCHANGED resp
    /\ UNCHANGED <<now, store, req, err, writes, raced, connection>>

\* faulty variant: step 3 closing the contest before it knows the winner exists
DeclareFindWinnerClosesFirst(r) ==
    /\ pc[r] = "findWinner"
    /\ loc' = [loc EXCEPT ![r].winnerUser = FindUserOrNull(req[r].winnerEmail)]
    /\ contestsCollection' =
         [contestsCollection EXCEPT ![req[r].id].status = "Closed"]
    /\ writes' = [writes EXCEPT ![r] = @ \cup {"contests"}]
    /\ IF ~UserExists(req[r].winnerEmail)
       THEN Respond(r, "404", 0)
       ELSE Goto(r, "updateContest") /\ UNCHANGED resp
    /\ UNCHANGED <<now, usersCollection, nextContestId, participatedCollection,
                   submissionsCollection, req, err, raced, connection>>

\* step 3: findOne the winner's user document
DeclareFindWinner(r) ==
    /\ pc[r] = "findWinner"
    /\ loc' = [loc EXCEPT ![r].winnerUser = FindUserOrNull(req[r].winnerEmail)]
    /\ IF ~UserExists(req[r].winnerEmail)
       THEN Respond(r, "404", 0)
       ELSE Goto(r, "updateContest") /\ UNCHANGED resp
    /\ UNCHANGED <<now, store, req, err, writes, raced, connection>>

\* the embedded winner record written into the contest
WinnerRecord(winnerUser, contest) ==
    [email |-> winnerUser.email, name |-> winnerUser.name,
     prizeMoney |-> contest.prizeMoney]

\* step 4, first update: $set winner and status on the contest, by _id alone
DeclareUpdateContest(r) ==
    /\ pc[r] = "updateContest"
    /\ IF ContestExists(req[r].id)
       THEN /\ contestsCollection' =
                 [contestsCollection EXCEPT ![req[r].id] =
                     [@ EXCEPT !.winner = <<WinnerRecord(loc[r].winnerUser[1],
                                                         loc[r].contest[1])>>,
                               !.status = "Closed"]]
            /\ writes' = [writes EXCEPT ![r] = @ \cup {"contests"}]
            /\ loc' = [loc EXCEPT ![r].matched = 1]
       ELSE /\ UNCHANGED <<contestsCollection, writes>>
            /\ loc' = [loc EXCEPT ![r].matched = 0]
    /\ Goto(r, "updateUser")
    /\ UNCHANGED <<now, usersCollection, nextContestId, participatedCollection,
                   submissionsCollection, req, resp, err, raced, connection>>

\* the update pipeline on the winner's document: stage 1 increments wins,
\* stage 2 sets winPercentage from the document stage 1 produced
IncrementWins(doc) == [doc EXCEPT !.wins = @ + 1]
\* faulty variant: the percentage is taken from the wins value before stage 1
SetWinPercentageStale(doc) ==
    [doc EXCEPT !.winPercentage = Frac(100 * (doc.wins - 1), doc.participatedCount)]
SetWinPercentage(doc) ==
    [doc EXCEPT !.winPercentage = Frac(100 * doc.wins, doc.participatedCount)]
WinnerPipeline(doc) == SetWinPercentage(IncrementWins(doc))
\* $divide raises "can't $divide by zero" and the whole update is rejected
DivideFails(doc) == doc.participatedCount = 0

\* step 4, second update, then res.send(updateContestResult)
DeclareUpdateUser(r) ==
    /\ pc[r] = "updateUser"
    /\ IF UserExists(req[r].winnerEmail) /\ DivideFails(FindUser(req[r].winnerEmail))
       THEN /\ Reject(r, "DivideByZero")
            /\ UNCHANGED <<usersCollection, writes>>
       ELSE /\ IF UserExists(req[r].winnerEmail)
               THEN /\ usersCollection' =
                         UpdateFirstUser(req[r].winnerEmail,
                                         WinnerPipeline(FindUser(req[r].winnerEmail)))
                    /\ writes' = [writes EXCEPT ![r] = @ \cup {"users"}]
               ELSE UNCHANGED <<usersCollection, writes>>
            /\ Respond(r, "200", loc[r].matched)
            /\ UNCHANGED err
    /\ UNCHANGED <<now, contestsCollection, nextContestId, participatedCollection,
                   submissionsCollection, req, loc, raced, connection>>

(***************************************************************************)
(* POST /users                                                             *)
(***************************************************************************)
\* role: user.role || 'Normal User'  ("" stands for a body without role)
RoleOrDefault(role) == IF role = "" THEN "Normal User" ELSE role

RegisterInFlight(email) ==
    \E q \in Requests :
        InFlight(q) /\ req[q].op = "register" /\ req[q].user.email = email

StartRegister(r, user) ==
    /\ CanStart(r)
    /\ req' = [req EXCEPT ![r] = [op |-> "register", user |-> user]]
    /\ raced' = [raced EXCEPT ![user.email] = @ \/ RegisterInFlight(user.email)]
    /\ Goto(r, "findExisting")
    /\ UNCHANGED <<now, store, loc, resp, err, writes, connection>>

\* faulty variant: registration without the early return for an existing user
RegisterAlwaysInserts(r) ==
    /\ pc[r] = "findExisting"
    /\ Goto(r, "insertUser")
    /\ UNCHANGED <<now, store, req, loc, resp, err, writes, raced, connection>>

\* findOne by email; an existing user ends the request
RegisterFindExisting(r) ==
    /\ pc[r] = "findExisting"
    /\ IF UserExists(req[r].user.email)
       THEN Respond(r, "200", 0)
       ELSE Goto(r, "insertUser") /\ UNCHANGED resp
    /\ UNCHANGED <<now, store, req, loc, err, writes, raced, connection>>

\* insertOne(newUser): the collection has no unique index on email
RegisterInsert(r) ==
    /\ pc[r] = "insertUser"
    /\ usersCollection' =
         [usersCollection EXCEPT ![req[r].user.email] =
             Append(@, NewUser(req[r].user.email, req[r].user.name,
                               RoleOrDefault(req[r].user.role)))]
    /\ writes' = [writes EXCEPT ![r] = @ \cup {"users"}]
    /\ Respond(r, "201", 1)
    /\ UNCHANGED <<now, contestsCollection, nextContestId, participatedCollection,
                   submissionsCollection, req, loc, err, raced, connection>>

(***************************************************************************)
(* PUT /users/:email                                                       *)
(***************************************************************************)
StartEditProfile(r, caller, email, body) ==
    /\ CanStart(r)
    /\ req' = [req EXCEPT ![r] = [op |-> "editProfile", caller |-> caller,
                                  email |-> email, body |-> body]]
    /\ IF email # caller
       THEN Respond(r, "403", 0)
       ELSE Goto(r, "updateProfile") /\ UNCHANGED resp
    /\ UNCHANGED <<now, store, loc, err, writes, raced, connection>>

\* faulty variant: the whole request body is set
UpdateDocWholeBody(updatedUser) == updatedUser
\* updateDoc: { $set: { name, photo, address } } picks the profile fields
\* out of the request body
UpdateDoc(updatedUser) == [name |-> updatedUser.name]

\* updateOne({ email }, updateDoc)
EditProfile(r) ==
    /\ pc[r] = "updateProfile"
    /\ IF UserExists(req[r].email)
       THEN /\ usersCollection' =
                 UpdateFirstUser(req[r].email,
                                 ApplySet(FindUser(req[r].email),
                                          UpdateDoc(req[r].body)))
            /\ writes' = [writes EXCEPT ![r] = @ \cup {"users"}]
            /\ Respond(r, "200", 1)
       ELSE /\ UNCHANGED <<usersCollection, writes>>
            /\ Respond(r, "200", 0)
    /\ UNCHANGED <<now, contestsCollection, nextContestId, participatedCollection,
                   submissionsCollection, req, loc, err, raced, connection>>

(***************************************************************************)
(* POST /contests                                                          *)
(***************************************************************************)
\* the document insertOne stores for a request body: the body itself
\* (a body carries no winner field)
ContestFromBody(body) ==
    [creatorEmail |-> body.creatorEmail, status |-> body.status,
     participantsCount |-> body.participantsCount, deadline |-> body.deadline,
     prizeMoney |-> body.prizeMoney, winner |-> NoWinner]

StartCreateContest(r, caller, body) ==
    /\ CanStart(r)
    /\ req' = [req EXCEPT ![r] = [op |-> "createContest", caller |-> caller,
                                  body |-> body]]
    /\ Goto(r, "verifyCreator")
    /\ UNCHANGED <<now, store, loc, resp, err, writes, raced, connection>>

CreateContest(r) ==
    /\ pc[r] = "insertContest"
    /\ contestsCollection' =
         contestsCollection @@ (nextContestId :> ContestFromBody(req[r].body))
    /\ nextContestId' = nextContestId + 1
    /\ loc' = [loc EXCEPT ![r].matched = nextContestId]
    /\ writes' = [writes EXCEPT ![r] = @ \cup {"contests"}]
    /\ Respond(r, "201", 1)
    /\ UNCHANGED <<now, usersCollection, participatedCollection,
                   submissionsCollection, req, err, raced, connection>>

(***************************************************************************)
(* PUT /contests/:id and DELETE /contests/:id                              *)
(***************************************************************************)
\* faulty variant: the filter without the status condition
OwnedAnyStatus(id, caller) ==
    /\ id \in DOMAIN contestsCollection
    /\ contestsCollection[id].creatorEmail = caller

\* the filter { _id, creatorEmail: req.decoded.email, status: 'Pending' }
OwnedPending(id, caller) ==
    /\ ContestExists(id)
    /\ contestsCollection[id].creatorEmail = caller
    /\ contestsCollection[id].status = "Pending"

StartEditContest(r, caller, id, body) ==
    /\ CanStart(r)
    /\ req' = [req EXCEPT ![r] = [op |-> "editContest", caller |-> caller,
                                  id |-> id, body |-> body]]
    /\ Goto(r, "editContest")
    /\ UNCHANGED <<now, store, loc, resp, err, writes, raced, connection>>

EditContest(r) ==
    /\ pc[r] = "editContest"
    /\ IF OwnedPending(req[r].id, req[r].caller)
       THEN /\ contestsCollection' =
                 [contestsCollection EXCEPT ![req[r].id] = ApplySet(@, req[r].body)]
            /\ writes' = [writes EXCEPT ![r] = @ \cup {"contests"}]
            /\ Respond(r, "200", 1)
       ELSE /\ UNCHANGED <<contestsCollection, writes>>
            /\ Respond(r, "200", 0)
    /\ UNCHANGED <<now, usersCollection, nextContestId, participatedCollection,
                   submissionsCollection, req, loc, err, raced, connection>>

StartDeleteContest(r, caller, id) ==
    /\ CanStart(r)
    /\ req' = [req EXCEPT ![r] = [op |-> "deleteContest", caller |-> caller, id |-> id]]
    /\ Goto(r, "deleteContest")
    /\ UNCHANGED <<now, store, loc, resp, err, writes, raced, connection>>

DeleteContest(r) ==
    /\ pc[r] = "deleteContest"
    /\ IF OwnedPending(req[r].id, req[r].caller)
       THEN /\ contestsCollection' =
                 [i \in DOMAIN contestsCollection \ {req[r].id} |-> contestsCollection[i]]
            /\ writes' = [writes EXCEPT ![r] = @ \cup {"contests"}]
            /\ Respond(r, "200", 1)
       ELSE /\ UNCHANGED <<contestsCollection, writes>>
            /\ Respond(r, "200", 0)
    /\ UNCHANGED <<now, usersCollection, nextContestId, participatedCollection,
                   submissionsCollection, req, loc, err, raced, connection>>

(***************************************************************************)
(* PATCH /contests/status/:id                                              *)
(***************************************************************************)
StartSetStatus(r, caller, id, status) ==
    /\ CanStart(r)
    /\ req' = [req EXCEPT ![r] = [op |-> "setStatus", caller |-> caller,
                                  id |-> id, status |-> status]]
    /\ Goto(r, "verifyAdmin")
    /\ UNCHANGED <<now, store, loc, resp, err, writes, raced, connection>>

\* updateOne({ _id }, { $set: { status } }): no condition on the current status
SetStatus(r) ==
    /\ pc[r] = "updateStatus"
    /\ IF ContestExists(req[r].id)
       THEN /\ contestsCollection' =
                 [contestsCollection EXCEPT ![req[r].id].status = req[r].status]
            /\ writes' = [writes EXCEPT ![r] = @ \cup {"contests"}]
            /\ Respond(r, "200", 1)
       ELSE /\ UNCHANGED <<contestsCollection, writes>>
            /\ Respond(r, "200", 0)
    /\ UNCHANGED <<now, usersCollection, nextContestId, participatedCollection,
                   submissionsCollection, req, loc, err, raced, connection>>

(***************************************************************************)
(* POST /participated                                                      *)
(***************************************************************************)
StartParticipate(r, id, email) ==
    /\ CanStart(r)
    /\ req' = [req EXCEPT ![r] = [op |-> "participate", contestId |-> id,
                                  participantEmail |-> email]]
    /\ Goto(r, "insertParticipation")
    /\ UNCHANGED <<now, store, loc, resp, err, writes, raced, connection>>

\* insertOne(participationInfo): no check for an earlier participation
ParticipateInsert(r) ==
    /\ pc[r] = "insertParticipation"
    /\ participatedCollection' =
         participatedCollection (+)
            SetToBag({Participation(req[r].contestId, req[r].participantEmail)})
    /\ writes' = [writes EXCEPT ![r] = @ \cup {"participated"}]
    /\ Goto(r, "incContest")
    /\ UNCHANGED <<now, usersCollection, contestsCollection, nextContestId,
                   submissionsCollection, req, loc, resp, err, raced, connection>>

\* { $inc: { participantsCount: 1 } } on the contest
ParticipateIncContest(r) ==
    /\ pc[r] = "incContest"
    /\ IF ContestExists(req[r].contestId)
       THEN /\ contestsCollection' =
                 [contestsCollection EXCEPT ![req[r].contestId].participantsCount = @ + 1]
            /\ writes' = [writes EXCEPT ![r] = @ \cup {"contests"}]
       ELSE UNCHANGED <<contestsCollection, writes>>
    /\ Goto(r, "incUser")
    /\ UNCHANGED <<now, usersCollection, nextContestId, participatedCollection,
                   submissionsCollection, req, loc, resp, err, raced, connection>>

\* { $inc: { participatedCount: 1 } } on the user, then res.send(result)
ParticipateIncUser(r) ==
    /\ pc[r] = "incUser"
    /\ IF UserExists(req[r].participantEmail)
       THEN /\ usersCollection' =
                 UpdateFirstUser(req[r].participantEmail,
                     [FindUser(req[r].participantEmail) EXCEPT !.participatedCount = @ + 1])
            /\ writes' = [writes EXCEPT ![r] = @ \cup {"users"}]
       ELSE UNCHANGED <<usersCollection, writes>>
    /\ Respond(r, "200", 1)
    /\ UNCHANGED <<now, contestsCollection, nextContestId, participatedCollection,
                   submissionsCollection, req, loc, err, raced, connection>>

(***************************************************************************)
(* POST /submissions                                                       *)
(***************************************************************************)
\* faulty variant: the lookup by participantEmail alone
IsRegisteredAnywhere(id, email) ==
    \E p \in BagToSet(participatedCollection) : p.participantEmail = email

\* participatedCollection.findOne({ contestId, participantEmail })
IsRegistered(id, email) == BagIn(Participation(id, email), participatedCollection)

StartSubmit(r, id, email) ==
    /\ CanStart(r)
    /\ req' = [req EXCEPT ![r] = [op |-> "submit", contestId |-> id,
                                  participantEmail |-> email]]
    /\ Goto(r, "findParticipation")
    /\ UNCHANGED <<now, store, loc, resp, err, writes, raced, connection>>

SubmitFindParticipation(r) ==
    /\ pc[r] = "findParticipation"
    /\ IF ~IsRegistered(req[r].contestId, req[r].participantEmail)
       THEN Respond(r, "403", 0)
       ELSE Goto(r, "findSubmitter") /\ UNCHANGED resp
    /\ UNCHANGED <<now, store, req, loc, err, writes, raced, connection>>

\* const user = findOne({ email: participantEmail })
SubmitFindUser(r) ==
    /\ pc[r] = "findSubmitter"
    /\ loc' = [loc EXCEPT ![r].winnerUser = FindUserOrNull(req[r].participantEmail)]
    /\ Goto(r, "insertSubmission")
    /\ UNCHANGED <<now, store, req, resp, err, writes, raced, connection>>

\* participantName = user?.name || 'Unknown User'
ParticipantName(user) == IF user = <<>> THEN "Unknown User" ELSE user[1].name

SubmitInsert(r) ==
    /\ pc[r] = "insertSubmission"
    /\ submissionsCollection' =
         submissionsCollection (+)
            SetToBag({[contestId |-> req[r].contestId,
                       participantEmail |-> req[r].participantEmail,
                       participantName |-> ParticipantName(loc[r].winnerUser)]})
    /\ writes' = [writes EXCEPT ![r] = @ \cup {"submissions"}]
    /\ Respond(r, "200", 1)
    /\ UNCHANGED <<now, usersCollection, contestsCollection, nextContestId,
                   participatedCollection, req, loc, err, raced, connection>>

(***************************************************************************)
(* Store failure and the clock.                                            *)
(***************************************************************************)
\* the store operation a request is waiting for fails (network, timeout):
\* nothing is written and the handler rejects
StoreError(r) ==
    /\ InFlight(r)
    /\ Reject(r, "StoreError")
    /\ UNCHANGED <<now, store, req, loc, writes, raced, connection>>

Tick ==
    /\ now < MaxTime
    /\ now' = now + 1
    /\ UNCHANGED <<store, procs, raced, connection>>

\* an earlier request has connected: client 0 is connected and the handles
\* were taken from it
StoreConnected ==
    /\ client = <<0>>
    /\ db = <<0>>
    /\ isConnected = TRUE
    /\ connects = [c \in Clients |-> IF c = 0 THEN "connected" ELSE "none"]

IdleRequests ==
    /\ pc = [r \in Requests |-> "new"]
    /\ req = [r \in Requests |-> NoReq]
    /\ loc = [r \in Requests |-> NoLoc]
    /\ resp = [r \in Requests |-> NoResp]
    /\ err = [r \in Requests |-> ""]
    /\ writes = [r \in Requests |-> {}]
    /\ raced = [e \in Emails |-> FALSE]

(***************************************************************************)
(* Spec: the winner declaration workflow.  The store holds what earlier   *)
(* requests left: two creators who entered no contest, two normal users   *)
(* who entered contest 1 (one participation each, both counters raised),  *)
(* and the confirmed contest 1 of cr1 whose deadline is still ahead.      *)
(* "u3" is not registered and contest 2 does not exist.                   *)
(***************************************************************************)
Init ==
    /\ now = 0
    /\ \E entrants \in {{"u1", "u2"}} :
         /\ usersCollection =
              [e \in Emails |->
                 CASE e \in {"cr1", "cr2"} -> <<NewUser(e, e, "Contest Creator")>>
                   [] e \in {"u1", "u2"} ->
                        <<UserWith(e, "Normal User", IF e \in entrants THEN {1} ELSE {})>>
                   [] OTHER -> <<>>]
         /\ contestsCollection =
              (1 :> [creatorEmail |-> "cr1", status |-> "Confirmed",
                     participantsCount |-> Cardinality(entrants), deadline |-> 1,
                     prizeMoney |-> 100, winner |-> NoWinner])
         /\ participatedCollection = SetToBag({Participation(1, e) : e \in entrants})
    /\ nextContestId = 2
    /\ submissionsCollection = EmptyBag
    /\ IdleRequests
    /\ StoreConnected

Next ==
    \/ Tick
    \/ \E r \in Requests :
         \/ \E caller \in {"cr1", "cr2"}, id \in {1, 2},
               winnerEmail \in {"u1", "u2", "cr2", "u3"} :
                 StartDeclareWinner(r, caller, id, winnerEmail)
         \/ VerifyCreator(r)
         \/ DeclareFindContest(r)
         \/ DeclareFindWinner(r)
         \/ DeclareUpdateContest(r)
         \/ DeclareUpdateUser(r)
         \/ StoreError(r)

Spec == Init /\ [][Next]_vars

(***************************************************************************)
(* SpecUsers: registration and profile edits on an empty users collection.*)
(***************************************************************************)
InitUsers ==
    /\ now = 0
    /\ usersCollection = [e \in Emails |-> <<>>]
    /\ contestsCollection = <<>>
    /\ nextContestId = 1
    /\ participatedCollection = EmptyBag
    /\ submissionsCollection = EmptyBag
    /\ IdleRequests
    /\ StoreConnected

RegisterBodies ==
    [email : {"u1", "u2"}, name : {"Ann", "Bob"}, role : {"", "Admin"}]

\* bodies of PUT /users/:email: the profile fields alone, and with role and
\* statistics fields beside them
ProfileBodies ==
    {[name |-> "Cy"],
     [name |-> "Cy", role |-> "Admin", wins |-> 5, participatedCount |-> 5,
      winPercentage |-> <<100, 1>>]}

NextUsers ==
    \E r \in Requests :
        \/ \E user \in RegisterBodies : StartRegister(r, user)
        \/ RegisterFindExisting(r)
        \/ RegisterInsert(r)
        \/ \E caller \in {"u1", "u2"}, email \in {"u1", "u2"}, body \in ProfileBodies :
              StartEditProfile(r, caller, email, body)
        \/ EditProfile(r)
        \/ StoreError(r)

SpecUsers == InitUsers /\ [][NextUsers]_vars

(***************************************************************************)
(* SpecContests: the contest lifecycle manager.  Two creators, an admin   *)
(* and a normal user are registered; contest 1 of cr1 exists, pending or  *)
(* already confirmed by the admin.                                         *)
(***************************************************************************)
InitContests ==
    /\ now = 0
    /\ usersCollection =
         [e \in Emails |->
            CASE e \in {"cr1", "cr2"} -> <<NewUser(e, e, "Contest Creator")>>
              [] e = "u1" -> <<NewUser(e, e, "Normal User")>>
              [] e = "u2" -> <<NewUser(e, e, "Admin")>>
              [] OTHER -> <<>>]
    /\ \E status \in {"Pending", "Confirmed"} :
         contestsCollection =
            (1 :> [creatorEmail |-> "cr1", status |-> status, participantsCount |-> 0,
                   deadline |-> 1, prizeMoney |-> 100, winner |-> NoWinner])
    /\ nextContestId = 2
    /\ participatedCollection = EmptyBag
    /\ submissionsCollection = EmptyBag
    /\ IdleRequests
    /\ StoreConnected

\* bodies of POST /contests: what the client's form sends, and a body that
\* carries its own status and participantsCount
CreateBodies ==
    {[creatorEmail |-> "cr1", status |-> "Pending", participantsCount |-> 0,
      deadline |-> 1, prizeMoney |-> 100],
     [creatorEmail |-> "cr1", status |-> "Confirmed", participantsCount |-> 3,
      deadline |-> 1, prizeMoney |-> 100]}

\* bodies of PUT /contests/:id
EditBodies ==
    {[prizeMoney |-> 200], [status |-> "Confirmed"], [creatorEmail |-> "cr2"]}

\* PATCH /contests/status/:id as the admin u2 and as the creator cr1
SetStatusRequests ==
    {[caller |-> "u2", id |-> 1, status |-> "Confirmed"],
     [caller |-> "u2", id |-> 1, status |-> "Rejected"],
     [caller |-> "cr1", id |-> 1, status |-> "Confirmed"]}

NextContests ==
    \E r \in Requests :
        \/ \E caller \in {"cr1", "u1"}, body \in CreateBodies :
              StartCreateContest(r, caller, body)
        \/ VerifyCreator(r)
        \/ CreateContest(r)
        \/ \E caller \in {"cr1", "cr2"}, id \in {1, 2}, body \in EditBodies :
              StartEditContest(r, caller, id, body)
        \/ EditContest(r)
        \/ \E caller \in {"cr1", "cr2"}, id \in {1, 2} :
              StartDeleteContest(r, caller, id)
        \/ DeleteContest(r)
        \/ \E s \in SetStatusRequests : StartSetStatus(r, s.caller, s.id, s.status)
        \/ VerifyAdmin(r)
        \/ SetStatus(r)
        \/ StoreError(r)

SpecContests == InitContests /\ [][NextContests]_vars

(***************************************************************************)
(* SpecRecorder: participation and submission recording.  u1 and u2 are   *)
(* registered, contest 1 is confirmed, nobody has entered yet; "u3" is    *)
(* not registered and contest 2 does not exist.                           *)
(***************************************************************************)
InitRecorder ==
    /\ now = 0
    /\ usersCollection =
         [e \in Emails |->
            CASE e = "cr1" -> <<NewUser(e, e, "Contest Creator")>>
              [] e \in {"u1", "u2"} -> <<NewUser(e, e, "Normal User")>>
              [] OTHER -> <<>>]
    /\ contestsCollection =
         (1 :> [creatorEmail |-> "cr1", status |-> "Confirmed", participantsCount |-> 0,
                deadline |-> 1, prizeMoney |-> 100, winner |-> NoWinner])
    /\ nextContestId = 2
    /\ participatedCollection = EmptyBag
    /\ submissionsCollection = EmptyBag
    /\ IdleRequests
    /\ StoreConnected

NextRecorder ==
    \E r \in Requests :
        \/ \E id \in {1, 2}, email \in {"u1", "u2", "u3"} : StartParticipate(r, id, email)
        \/ ParticipateInsert(r)
        \/ ParticipateIncContest(r)
        \/ ParticipateIncUser(r)
        \/ \E id \in {1, 2}, email \in {"u1", "u2", "u3"} : StartSubmit(r, id, email)
        \/ SubmitFindParticipation(r)
        \/ SubmitFindUser(r)
        \/ SubmitInsert(r)
        \/ StoreError(r)

SpecRecorder == InitRecorder /\ [][NextRecorder]_vars

(***************************************************************************)
(* SpecLifecycle: one contest through its whole life.  cr1 (creator), u2  *)
(* (admin) and u1 (normal user) are registered; contest 1 of cr1 is       *)
(* pending or confirmed, u1 has entered it (one participation, both       *)
(* counters at 1) and its deadline is still ahead.                        *)
(***************************************************************************)
InitLifecycle ==
    /\ now = 0
    /\ usersCollection =
         [e \in Emails |->
            CASE e = "cr1" -> <<NewUser(e, e, "Contest Creator")>>
              [] e = "u1" -> <<UserWith(e, "Normal User", {1})>>
              [] e = "u2" -> <<NewUser(e, e, "Admin")>>
              [] OTHER -> <<>>]
    /\ \E status \in {"Pending", "Confirmed"} :
         contestsCollection =
            (1 :> [creatorEmail |-> "cr1", status |-> status, participantsCount |-> 1,
                   deadline |-> 1, prizeMoney |-> 100, winner |-> NoWinner])
    /\ nextContestId = 2
    /\ participatedCollection = SetToBag({Participation(1, "u1")})
    /\ submissionsCollection = EmptyBag
    /\ IdleRequests
    /\ StoreConnected

\* bodies of PUT /contests/:id in the lifecycle: those of EditBodies and one
\* that carries the participant counter
LifecycleEditBodies == EditBodies \cup {[participantsCount |-> 0]}

NextLifecycle ==
    \/ Tick
    \/ \E r \in Requests :
         \/ \E winnerEmail \in {"u1", "cr1"} :
               StartDeclareWinner(r, "cr1", 1, winnerEmail)
         \/ VerifyCreator(r)
         \/ DeclareFindContest(r)
         \/ DeclareFindWinner(r)
         \/ DeclareUpdateContest(r)
         \/ DeclareUpdateUser(r)
         \/ \E status \in {"Confirmed", "Rejected"} : StartSetStatus(r, "u2", 1, status)
         \/ VerifyAdmin(r)
         \/ SetStatus(r)
         \/ \E body \in LifecycleEditBodies : StartEditContest(r, "cr1", 1, body)
         \/ EditContest(r)
         \/ StartDeleteContest(r, "cr1", 1)
         \/ DeleteContest(r)
         \/ StartParticipate(r, 1, "u1")
         \/ ParticipateInsert(r)
         \/ ParticipateIncContest(r)
         \/ ParticipateIncUser(r)
         \/ StoreError(r)

SpecLifecycle == InitLifecycle /\ [][NextLifecycle]_vars

(***************************************************************************)
(* Properties of the winner declaration workflow.                          *)
(***************************************************************************)
IsDeclare(r) == req[r].op = "declareWinner"
Succeeded(r) == resp[r].status = "200"
\* request r takes the step it is suspended at, at label
Steps(r, label) == pc[r] = label /\ pc'[r] # label

\* C1: two declareWinner calls on the same contest with different
\* winnerEmail values never both succeed, whatever the interleaving of
\* their store reads and writes.
C1_NeverBothSucceed ==
    \A r1, r2 \in Requests :
        (/\ r1 # r2
         /\ IsDeclare(r1) /\ IsDeclare(r2)
         /\ req[r1].id = req[r2].id
         /\ req[r1].winnerEmail # req[r2].winnerEmail)
        => ~(Succeeded(r1) /\ Succeeded(r2))

\* C2: a declareWinner call succeeds only if, when it read the contest, the
\* deadline had passed and no winner was set; and a call that reads the
\* contest after another call on it has succeeded is answered 400.
C2_SucceededSawEligible ==
    \A r \in Requests :
        IsDeclare(r) /\ Succeeded(r) =>
            /\ loc[r].contest # <<>>
            /\ loc[r].contest[1].winner = <<>>
            /\ loc[r].contest[1].deadline <= now

C2_GateStep ==
    \A r \in Requests :
        Steps(r, "findContest") /\ pc'[r] = "findWinner" =>
            /\ req[r].id \in DOMAIN contestsCollection
            /\ contestsCollection[req[r].id].winner = <<>>
            /\ contestsCollection[req[r].id].deadline <= now

C2_SecondCallStep ==
    \A r \in Requests :
        (/\ Steps(r, "findContest")
         /\ err'[r] = ""
         /\ \E q \in Requests \ {r} :
               IsDeclare(q) /\ Succeeded(q) /\ req[q].id = req[r].id
         /\ req[r].id \in DOMAIN contestsCollection
         /\ contestsCollection[req[r].id].creatorEmail = req[r].caller)
        => resp'[r].status = "400"

C2_SucceedsOnlyWhenEligible ==
    /\ [] C2_SucceededSawEligible
    /\ [][C2_GateStep /\ C2_SecondCallStep]_vars

\* a call succeeded, and a later call by the owner read the contest with the
\* winner already set and was answered 400
C2_Witness ==
    \E q, r \in Requests :
        /\ q # r /\ IsDeclare(q) /\ IsDeclare(r)
        /\ Succeeded(q) /\ req[q].id = req[r].id
        /\ resp[r].status = "400"
        /\ loc[r].contest # <<>> /\ loc[r].contest[1].winner # <<>>

\* C3: when a declareWinner call returns success the contest is Closed,
\* its winner.email is the call's winnerEmail, and the winner's wins is
\* one more than the value the call read before writing.
C3_SuccessPostcondition ==
    [][\A r \in Requests :
          IsDeclare(r) /\ ~Succeeded(r) /\ resp'[r].status = "200" =>
              /\ req[r].id \in DOMAIN contestsCollection'
              /\ contestsCollection'[req[r].id].status = "Closed"
              /\ contestsCollection'[req[r].id].winner # <<>>
              /\ contestsCollection'[req[r].id].winner[1].email = req[r].winnerEmail
              /\ usersCollection'[req[r].winnerEmail][1].wins
                    = loc[r].winnerUser[1].wins + 1]_vars

\* C4: a declareWinner call that reached the statistics update of a winner
\* whose participatedCount is 0 ends with winPercentage 0 and wins
\* incremented, not in a divide-by-zero fault.
C4_ZeroParticipationHandled ==
    \A r \in Requests :
        (/\ IsDeclare(r) /\ pc[r] = "done"
         /\ loc[r].winnerUser # <<>>
         /\ loc[r].winnerUser[1].participatedCount = 0
         /\ err[r] # "StoreError")
        => /\ err[r] = ""
           /\ Succeeded(r)
           /\ usersCollection[req[r].winnerEmail][1].winPercentage = <<0, 1>>
           /\ usersCollection[req[r].winnerEmail][1].wins
                 > loc[r].winnerUser[1].wins

\* C5: the contest update and the statistics update of one declareWinner
\* call are atomic: a call that has ended and assigned the winner has also
\* incremented the winner's wins.  (Stated for ended calls only, and leaving
\* the divide-by-zero rejection of C4 aside.)
C5_WinnerAndWinsTogether ==
    \A r \in Requests :
        (/\ IsDeclare(r) /\ pc[r] = "done"
         /\ "contests" \in writes[r]
         /\ err[r] # "DivideByZero")
        => "users" \in writes[r]

\* C6: a declareWinner call answered 403, 400 or 404 (steps 1 to 3) has
\* written no collection, and the step that answers leaves the store as it is.
C6_FailedWroteNothing ==
    \A r \in Requests :
        IsDeclare(r) /\ resp[r].status \in {"403", "400", "404"} => writes[r] = {}

C6_FailingStep ==
    \A r \in Requests :
        (/\ IsDeclare(r)
         /\ resp[r].status = "pending"
         /\ resp'[r].status \in {"403", "400", "404"})
        => UNCHANGED store

C6_FailureWritesNothing ==
    /\ [] C6_FailedWroteNothing
    /\ [][C6_FailingStep]_vars

\* one call was refused at the gate and another because its winner is not
\* registered, while the contest is still open
C6_Witness ==
    \E q, r \in Requests :
        /\ IsDeclare(q) /\ IsDeclare(r)
        /\ resp[q].status = "404" /\ req[q].winnerEmail = "u3"
        /\ resp[r].status \in {"400", "403"}
        /\ loc[r].contest # <<>>

(***************************************************************************)
(* Properties of the recorder, of registration and of the lifecycle.      *)
(***************************************************************************)
\* C7: a POST /submissions whose (contestId, participantEmail) has no
\* participation document when the handler looks for one is answered 403 and
\* inserts nothing; every stored submission has a matching participation.
C7_SubmissionsHaveParticipation ==
    \A sub \in BagToSet(submissionsCollection) :
        CopiesIn([contestId |-> sub.contestId,
                  participantEmail |-> sub.participantEmail],
                 participatedCollection) > 0

C7_RejectedWroteNothing ==
    \A r \in Requests :
        req[r].op = "submit" /\ resp[r].status = "403" => writes[r] = {}

C7_RejectStep ==
    \A r \in Requests :
        (/\ Steps(r, "findParticipation")
         /\ err'[r] = ""
         /\ CopiesIn([contestId |-> req[r].contestId,
                      participantEmail |-> req[r].participantEmail],
                     participatedCollection) = 0)
        => /\ resp'[r].status = "403"
           /\ pc'[r] = "done"
           /\ UNCHANGED store

C7_UnregisteredSubmissionRejected ==
    /\ [] (C7_SubmissionsHaveParticipation /\ C7_RejectedWroteNothing)
    /\ [][C7_RejectStep]_vars

\* a submission was refused although its participant has entered another
\* contest
C7_Witness ==
    \E q, r \in Requests :
        /\ req[r].op = "submit" /\ resp[r].status = "403"
        /\ req[q].op = "participate" /\ pc[q] = "done"
        /\ req[q].participantEmail = req[r].participantEmail
        /\ req[q].contestId # req[r].contestId

\* C8: a POST /users that finds a user with its email inserts nothing and
\* is answered "already exists"; no step of a registration changes or removes
\* a stored user document; and as long as the registrations for an email
\* come one after the other there is at most one user with that email.
C8_AtMostOnePerEmail ==
    \A e \in Emails : ~raced[e] => Len(usersCollection[e]) <= 1

C8_AnsweredExistingWroteNothing ==
    \A r \in Requests :
        req[r].op = "register" /\ resp[r].status = "200" => writes[r] = {}

C8_ExistingStep ==
    \A r \in Requests :
        (/\ req[r].op = "register"
         /\ Steps(r, "findExisting")
         /\ err'[r] = ""
         /\ usersCollection[req[r].user.email] # <<>>)
        => /\ resp'[r] = [status |-> "200", n |-> 0]
           /\ pc'[r] = "done"
           /\ UNCHANGED usersCollection

C8_RegisterKeepsStep ==
    \A r \in Requests :
        req[r].op = "register" /\ pc'[r] # pc[r] =>
            \A e \in Emails :
                /\ Len(usersCollection'[e]) >= Len(usersCollection[e])
                /\ SubSeq(usersCollection'[e], 1, Len(usersCollection[e]))
                      = usersCollection[e]

C9_GuardStep ==
    \A r \in Requests :
        (/\ req[r].op \in {"editContest", "deleteContest"}
         /\ pc[r] \in {"editContest", "deleteContest"}
         /\ pc'[r] = "done"
         /\ err'[r] = ""
         /\ req[r].id \in DOMAIN contestsCollection
         /\ \/ contestsCollection[req[r].id].creatorEmail # req[r].caller
            \/ contestsCollection[req[r].id].status # "Pending")
        => /\ resp'[r] = [status |-> "200", n |-> 0]
           /\ UNCHANGED contestsCollection

C9_EditDeleteGuard == [][C9_GuardStep]_vars

\* an edit by a creator who does not own the contest and a delete by the
\* owner of a contest that is no longer Pending have both affected nothing
C9_Witness ==
    \E q, r \in Requests :
        /\ req[q].op = "editContest" /\ pc[q] = "done" /\ resp[q].n = 0
        /\ req[q].id \in DOMAIN contestsCollection
        /\ contestsCollection[req[q].id].creatorEmail # req[q].caller
        /\ req[r].op = "deleteContest" /\ pc[r] = "done" /\ resp[r].n = 0
        /\ req[r].id \in DOMAIN contestsCollection
        /\ contestsCollection[req[r].id].creatorEmail = req[r].caller
        /\ contestsCollection[req[r].id].status # "Pending"

\* C10: the contest POST /contests inserts has status Pending and
\* participantsCount 0, whatever the body carries.
C10_CreatedPendingZero ==
    [][\A r \in Requests :
          Steps(r, "insertContest") /\ err'[r] = "" =>
              /\ nextContestId \in DOMAIN contestsCollection'
              /\ contestsCollection'[nextContestId].status = "Pending"
              /\ contestsCollection'[nextContestId].participantsCount = 0]_vars

(***************************************************************************)
(* Properties of the counters, the contest state machine and profiles.    *)
(***************************************************************************)
\* C11: there is never more than one participation document for one
\* (contestId, participantEmail) pair.
C11_OneParticipationPerPair ==
    \A p \in BagToSet(participatedCollection) :
        CopiesIn(p, participatedCollection) <= 1

\* C12: once a contest's winner is set, the contest keeps that winner in
\* every later state.
C12_WinnerSetOnce ==
    [][\A id \in DOMAIN contestsCollection :
          contestsCollection[id].winner # <<>> /\ id \in DOMAIN contestsCollection'
              => contestsCollection'[id].winner = contestsCollection[id].winner]_vars

\* C13: a contest has a winner if and only if its status is Closed.
C13_WinnerIffClosed ==
    \A id \in DOMAIN contestsCollection :
        contestsCollection[id].winner # <<>> <=> contestsCollection[id].status = "Closed"

\* C14: the status of a contest only moves Pending -> Confirmed,
\* Pending -> Rejected or Confirmed -> Closed.  Stated by what the claim
\* concludes from it: a Closed contest stays Closed, and a Pending or
\* Rejected contest is never moved to Closed.
C14_ClosedTerminal ==
    [][\A id \in DOMAIN contestsCollection \cap DOMAIN contestsCollection' :
          /\ contestsCollection[id].status = "Closed"
                => contestsCollection'[id].status = "Closed"
          /\ contestsCollection[id].status \in {"Pending", "Rejected"}
                => contestsCollection'[id].status # "Closed"]_vars


\* No request is being served.
Quiescent == \A r \in Requests : ~InFlight(r)

\* C15: with no request in progress, every user's winPercentage is
\* 100 * wins / participatedCount when participatedCount > 0 and 0 otherwise.
C15_WinPercentageConsistent ==
    Quiescent =>
        \A e \in Emails : \A i \in DOMAIN usersCollection[e] :
            LET u == usersCollection[e][i]
            IN  u.winPercentage =
                    IF u.participatedCount > 0
                    THEN Frac(100 * u.wins, u.participatedCount)
                    ELSE Zero


\* C16: declareWinner recomputes winPercentage from the incremented wins
\* and the current participatedCount: the statistics update of a successful
\* call takes a winner with wins = w and participatedCount = p > 0 to
\* wins = w + 1 and winPercentage = 100 * (w + 1) / p, leaving p alone; and
\* a successful call that no other request overlapped leaves its winner,
\* who had entered one contest and won none, with wins = 1 and
\* winPercentage = 100.
C16_PostIncrementPercentage ==
    /\ [](\A r \in Requests :
            (/\ IsDeclare(r) /\ Succeeded(r)
             /\ \A q \in Requests \ {r} : pc[q] = "new")
            => LET u == usersCollection[req[r].winnerEmail][1]
               IN  u.wins = 1 /\ u.winPercentage = <<100, 1>>)
    /\ [][\A r \in Requests :
            (/\ IsDeclare(r) /\ Steps(r, "updateUser") /\ resp'[r].status = "200"
             /\ UserExists(req[r].winnerEmail)
             /\ usersCollection[req[r].winnerEmail][1].participatedCount > 0)
            => LET before == usersCollection[req[r].winnerEmail][1]
                   after  == usersCollection'[req[r].winnerEmail][1]
               IN  /\ after.wins = before.wins + 1
                   /\ after.participatedCount = before.participatedCount
                   /\ after.winPercentage =
                         Frac(100 * (before.wins + 1), before.participatedCount)]_vars

\* the lifecycle's end: a declaration succeeded for a user who had entered
\* one contest, and the user now has wins = 1 and winPercentage = 100
C16_Witness ==
    \E r \in Requests :
        /\ IsDeclare(r) /\ Succeeded(r) /\ "users" \in writes[r]
        /\ usersCollection[req[r].winnerEmail][1].participatedCount = 1
        /\ usersCollection[req[r].winnerEmail][1].wins = 1
        /\ usersCollection[req[r].winnerEmail][1].winPercentage = <<100, 1>>


\* the number of documents of a bag that are in the set S
RECURSIVE CountIn(_, _)
CountIn(bag, S) ==
    IF S = {} THEN 0
    ELSE LET p == CHOOSE x \in S : TRUE
         IN  CopiesIn(p, bag) + CountIn(bag, S \ {p})

\* participatedCollection.countDocuments(filter)
ParticipationsOfContest(id) ==
    CountIn(participatedCollection,
            {p \in BagToSet(participatedCollection) : p.contestId = id})
ParticipationsOfUser(email) ==
    CountIn(participatedCollection,
            {p \in BagToSet(participatedCollection) : p.participantEmail = email})

\* C17: with no request in progress, every contest's participantsCount is
\* the number of participation documents of that contest and every user's
\* participatedCount is the number of participation documents of that user.
C17_CountersMatchParticipations ==
    Quiescent =>
        /\ \A id \in DOMAIN contestsCollection :
              contestsCollection[id].participantsCount = ParticipationsOfContest(id)
        /\ \A e \in Emails : \A i \in DOMAIN usersCollection[e] :
              usersCollection[e][i].participatedCount = ParticipationsOfUser(e)


\* C18: the creatorEmail of an existing contest never changes.
C18_CreatorEmailFixed ==
    [][\A id \in DOMAIN contestsCollection \cap DOMAIN contestsCollection' :
          contestsCollection'[id].creatorEmail = contestsCollection[id].creatorEmail]_vars


\* the fields of a user document a profile edit must leave alone
SameIdentityAndStatistics(u, v) ==
    /\ v.email = u.email /\ v.role = u.role /\ v.wins = u.wins
    /\ v.participatedCount = u.participatedCount
    /\ v.winPercentage = u.winPercentage

\* C19: a profile edit whose target email is not the caller's identity is
\* answered 403 and changes nothing; a step of any profile edit adds and
\* removes no user document, changes at most the first document of the
\* caller's own email, and leaves email, role, wins, participatedCount and
\* winPercentage of every user document as they were, whatever the body
\* carries.
C19_ProfileEditFrame ==
    /\ [](\A r \in Requests :
            req[r].op = "editProfile" /\ req[r].email # req[r].caller
            => pc[r] = "done" /\ resp[r].status = "403" /\ writes[r] = {})
    /\ [][\A r \in Requests :
            req'[r].op = "editProfile" /\ pc'[r] # pc[r] =>
               /\ req'[r].email # req'[r].caller => UNCHANGED store
               /\ \A e \in Emails :
                     /\ Len(usersCollection'[e]) = Len(usersCollection[e])
                     /\ \A i \in DOMAIN usersCollection[e] :
                           /\ SameIdentityAndStatistics(usersCollection[e][i],
                                                        usersCollection'[e][i])
                           /\ e # req'[r].caller \/ i # 1
                                 => usersCollection'[e][i] = usersCollection[e][i]
               /\ UNCHANGED <<contestsCollection, participatedCollection,
                              submissionsCollection>>]_vars

\* a profile edit whose body also carried role and statistics fields has
\* changed the caller's name, and the caller's role is still not Admin
C19_Witness ==
    \E r \in Requests :
        /\ req[r].op = "editProfile" /\ pc[r] = "done"
        /\ resp[r] = [status |-> "200", n |-> 1]
        /\ "role" \in DOMAIN req[r].body /\ req[r].body.role = "Admin"
        /\ usersCollection[req[r].caller][1].name = req[r].body.name
        /\ usersCollection[req[r].caller][1].role # "Admin"
        /\ usersCollection[req[r].caller][1].wins = 0


\* contestsCollection.countDocuments({ 'winner.email': email })
ContestsWonBy(email) ==
    Cardinality({id \in DOMAIN contestsCollection :
                    /\ contestsCollection[id].winner # <<>>
                    /\ contestsCollection[id].winner[1].email = email})

\* C20: with no request in progress, every user's wins is the number of
\* contests whose winner.email is that user's email.
C20_WinsMatchContestsWon ==
    Quiescent =>
        \A e \in Emails : \A i \in DOMAIN usersCollection[e] :
            usersCollection[e][i].wins = ContestsWonBy(e)


(***************************************************************************)
(* The store connection: connectDB and the middleware ensureDBConnection,  *)
(* which every request passes before its route.  connectDB runs without   *)
(* interruption up to `await client.connect()`; when the connect settles  *)
(* the rest of connectDB, the middleware's next() and the route handler   *)
(* up to its first store operation run without interruption.  The route   *)
(* behind the middleware is POST /users.                                   *)
(***************************************************************************)
\* the handles the route handlers use come from a client whose connect()
\* has completed
HandlesConnected == db # <<>> /\ connects[db[1]] = "connected"

\* a request arrives: ensureDBConnection calls connectDB, which returns at
\* once when the flag is set and a client exists (next() then enters the
\* handler), and otherwise replaces the module's client by a new one and
\* awaits its connect()
ensureDBConnection(r, user) ==
    /\ CanStart(r)
    /\ req' = [req EXCEPT ![r] = [op |-> "register", user |-> user]]
    /\ raced' = [raced EXCEPT ![user.email] = @ \/ RegisterInFlight(user.email)]
    /\ IF isConnected /\ client # <<>>
       THEN /\ Goto(r, "findExisting")
            /\ UNCHANGED connection
       ELSE /\ client' = <<r>>
            /\ connects' = [connects EXCEPT ![r] = "connecting"]
            /\ Goto(r, "connect")
            /\ UNCHANGED <<db, isConnected>>
    /\ UNCHANGED <<now, store, loc, resp, err, writes>>

\* client.connect() of request r's client resolves: db and the collection
\* handles are taken from the module's client as it is now, the flag is
\* set, and next() enters the handler
connectResolves(r) ==
    /\ pc[r] = "connect"
    /\ connects' = [connects EXCEPT ![r] = "connected"]
    /\ db' = client
    /\ isConnected' = TRUE
    /\ Goto(r, "findExisting")
    /\ UNCHANGED <<now, store, req, loc, resp, err, writes, raced, client>>

\* client.connect() of request r's client rejects: the flag is cleared,
\* connectDB rethrows and ensureDBConnection answers 500
connectRejects(r) ==
    /\ pc[r] = "connect"
    /\ connects' = [connects EXCEPT ![r] = "failed"]
    /\ isConnected' = FALSE
    /\ Respond(r, "500", 0)
    /\ UNCHANGED <<now, store, req, loc, err, writes, raced, client, db>>

\* request r is in its route handler
InHandler(r) == pc[r] \in {"findExisting", "insertUser"}

\* no request has been served and connectDB has never run
InitConnect ==
    /\ now = 0
    /\ usersCollection = [e \in Emails |-> <<>>]
    /\ contestsCollection = <<>>
    /\ nextContestId = 1
    /\ participatedCollection = EmptyBag
    /\ submissionsCollection = EmptyBag
    /\ IdleRequests
    /\ client = <<>>
    /\ db = <<>>
    /\ isConnected = FALSE
    /\ connects = [c \in Clients |-> "none"]

\* a store operation issued through the handles either is carried out or
\* rejects (always possible; what the driver does with handles of a client
\* that has not connected is left open between the two)
NextConnect ==
    \E r \in Requests :
        \/ \E user \in RegisterBodies : ensureDBConnection(r, user)
        \/ connectResolves(r)
        \/ connectRejects(r)
        \/ RegisterFindExisting(r)
        \/ RegisterInsert(r)
        \/ InHandler(r) /\ StoreError(r)

SpecConnect == InitConnect /\ [][NextConnect]_vars

\* C21: no route handler runs unless the collection handles come from a
\* MongoClient whose connect() has completed; and a request whose connect
\* fails is answered 500 without having entered its handler and leaves
\* isConnected false, and a request that arrives while isConnected is
\* false connects again.
C21_HandlersAwaitConnection ==
    /\ [](\A r \in Requests : InHandler(r) => HandlesConnected)
    /\ [][\A r \in Requests :
            /\ pc[r] = "connect" /\ connects'[r] = "failed"
                  => /\ resp'[r].status = "500" /\ pc'[r] = "done"
                     /\ writes'[r] = {} /\ ~isConnected'
            /\ pc[r] = "new" /\ pc'[r] # "new" /\ ~isConnected
                  => pc'[r] = "connect" /\ connects'[r] = "connecting"]_vars

====
